---- MODULE Spec2Model ----
(***************************************************************************)
(* A model of iss_tracker.py: the Redis-backed cache of ISS state vectors  *)
(* (one string entry per EPOCH key plus the list 'iss_keys') and the Flask *)
(* handlers that read and write it.  The later copy of the module in the   *)
(* file (lines 290-615) is the one Python ends up binding, and is the one  *)
(* modelled.                                                               *)
(***************************************************************************)
EXTENDS Integers, Sequences, FiniteSets, TLC

VARIABLES kv, iss_keys, last, proc, geo

vars == <<kv, iss_keys, last, proc, geo>>

(***************************************************************************)
(* Bounds of the model.                                                    *)
(***************************************************************************)
MaxFeed == 2
MaxParam == 2

Workers == {"w1", "w2"}

(***************************************************************************)
(* EPOCH strings.  TLA+ cannot index into a string, so the lexical split   *)
(* strptime performs on a key is tabulated in Tokens; everything after the *)
(* split (range checks, conversion to seconds) is computed.                *)
(***************************************************************************)
K1 == "2025-063T12:00:00.000Z"
K2 == "2025-063T12:00:00.500Z"
K3 == "2025-063T12:00:04.000Z"
KBad == "2025-400T12:00:00.000Z"
KInvalid == "INVALID_EPOCH"
IssKeysName == "iss_keys"

EpochKeys == {K1, K2, K3, KBad}
ReqKeys == EpochKeys \cup {KInvalid, IssKeysName}

NoMatch == [ok |-> FALSE, Y |-> 0, j |-> 0, H |-> 0, M |-> 0, S |-> 0, f |-> 0]

Tokens(s) ==
    CASE s = K1 -> [ok |-> TRUE, Y |-> 2025, j |-> 63, H |-> 12, M |-> 0, S |-> 0, f |-> 0]
      [] s = K2 -> [ok |-> TRUE, Y |-> 2025, j |-> 63, H |-> 12, M |-> 0, S |-> 0, f |-> 500]
      [] s = K3 -> [ok |-> TRUE, Y |-> 2025, j |-> 63, H |-> 12, M |-> 0, S |-> 4, f |-> 0]
      [] s = KBad -> [ok |-> TRUE, Y |-> 2025, j |-> 400, H |-> 12, M |-> 0, S |-> 0, f |-> 0]
      [] OTHER -> NoMatch

\* The number of leap years in 1..y (proleptic Gregorian).
LeapsThrough(y) == (y \div 4) - (y \div 100) + (y \div 400)

\* Days from 1970-01-01 to January 1st of year y.
DaysBeforeYear(y) == 365 * (y - 1970) + LeapsThrough(y - 1) - LeapsThrough(1969)

\* time.strptime(s, '%Y-%jT%H:%M:%S.%fZ'): the fields, or a ValueError when
\* the string does not match the format or a field is outside the range its
\* directive accepts (%j: 001..366, %H: 00..23, %M: 00..59, %S: 00..61).
strptime(s) ==
    LET t == Tokens(s)
    IN  IF /\ t.ok
           /\ t.j \in 1..366
           /\ t.H \in 0..23
           /\ t.M \in 0..59
           /\ t.S \in 0..61
        THEN t
        ELSE NoMatch

\* time.mktime of the parsed fields: whole seconds on a linear scale; the
\* fraction %f is not part of struct_time and is dropped.
mktime(t) ==
    (DaysBeforeYear(t.Y) + (t.j - 1)) * 86400 + t.H * 3600 + t.M * 60 + t.S

(***************************************************************************)
(* State vectors as xmltodict delivers them, and the feed.                 *)
(***************************************************************************)
Missing == "<missing>"

StateVector(epoch, vel) == [EPOCH |-> epoch, vel |-> vel, pos |-> <<1000, 2000, 3000>>]

S1a == StateVector(K1, <<2, 2, 1>>)
S1b == StateVector(K1, <<3, 1, 4>>)
S2 == StateVector(K2, <<3, 1, 4>>)
S3 == StateVector(K3, <<0, 0, 0>>)
SBad == StateVector(KBad, <<2, 2, 1>>)
SNoEpoch == StateVector(Missing, <<2, 2, 1>>)

\* The state vectors the feeds of Spec are made of.
Samples == {S1a, S1b, S3, SBad, SNoEpoch}

SeqsUpTo(S, lo, hi) == UNION {[1..n -> S] : n \in lo..hi}

\* What requests.get + xmltodict.parse + the path lookup can produce:
\*   unreachable  requests.RequestException
\*   notxml       xmltodict.expat.ExpatError
\*   nopath       KeyError on the way to ['stateVector']
\*   nullpath     an element on the way is empty or holds text only:
\*                xmltodict gives None or a str, and subscripting it raises
\*                TypeError
\*   empty        the stateVector element is empty (None)
\*   single       one stateVector element: xmltodict gives a dict, not a list
\*   list         two or more stateVector elements: a list of dicts
FeedFailures == {[kind |-> k, svs |-> <<>>] : k \in {"unreachable", "notxml", "nopath", "nullpath", "empty"}}
FeedSingles == {[kind |-> "single", svs |-> <<sv>>] : sv \in Samples}
FeedLists == {[kind |-> "list", svs |-> f] : f \in SeqsUpTo(Samples, 2, MaxFeed)}
Feeds == FeedFailures \cup FeedSingles \cup FeedLists

(***************************************************************************)
(* json.dumps / json.loads of a state vector.  The serialised form is a    *)
(* flat sequence of member names and values; loads rebuilds the dict.      *)
(***************************************************************************)
Nil == <<>>

json_dumps(sv) == <<"EPOCH", sv.EPOCH, "vel", sv.vel, "pos", sv.pos>>

\* json_loads with the velocity members lost on the way back.
json_loads_LosesVel(s) == [EPOCH |-> s[2], vel |-> <<0, 0, 0>>, pos |-> s[6]]

json_loads(s) == [EPOCH |-> s[2], vel |-> s[4], pos |-> s[6]]

(***************************************************************************)
(* The Redis commands the handlers use, on db = [kv, iss_keys].            *)
(***************************************************************************)
EmptyDb == [kv |-> [k \in EpochKeys |-> Nil], iss_keys |-> <<>>]

\* EXISTS: any type of key counts, the list 'iss_keys' included (a list
\* exists exactly while it is non-empty).
RdExists(db, k) ==
    IF k = IssKeysName
    THEN db.iss_keys # <<>>
    ELSE k \in EpochKeys /\ db.kv[k] # Nil

RdSet(db, k, v) == [db EXCEPT !.kv[k] = v]

\* RdRpush pushing at the head of the list (lpush) instead of the tail.
RdRpush_Lpush(db, k) == [db EXCEPT !.iss_keys = <<k>> \o @]

RdRpush(db, k) == [db EXCEPT !.iss_keys = Append(@, k)]

RdGet(db, k) == IF k \in EpochKeys THEN db.kv[k] ELSE Nil

RdLrange(db) == db.iss_keys

(***************************************************************************)
(* Responses.  A handler ends with a JSON list, a JSON dict, the dict      *)
(* {'error': msg}, or an exception that leaves the handler (a fault).      *)
(***************************************************************************)
ListResp(items) == [kind |-> "list", body |-> items]
DictResp(d) == [kind |-> "dict", body |-> d]
ErrorResp(msg) == [kind |-> "error", body |-> msg]
Fault(exc) == [kind |-> "fault", body |-> exc]

(***************************************************************************)
(* Query parameters: absent, the text of an integer, or other text.        *)
(***************************************************************************)
Absent == [given |-> FALSE, isInt |-> FALSE, n |-> 0]
NonInt == [given |-> TRUE, isInt |-> FALSE, n |-> 0]
IntText(n) == [given |-> TRUE, isInt |-> TRUE, n |-> n]

ParamValues == {Absent, NonInt} \cup {IntText(n) : n \in 0..MaxParam}

\* request.args.get(name, default) followed by int(...): the integer, or
\* ok = FALSE for the ValueError.
int_arg(param, default) ==
    IF ~param.given THEN [ok |-> TRUE, n |-> default]
    ELSE IF param.isInt THEN [ok |-> TRUE, n |-> param.n]
    ELSE [ok |-> FALSE, n |-> 0]

(***************************************************************************)
(* read_iss_data: the body of the loop over the feed (lines 350-369).      *)
(***************************************************************************)
\* Upsert with the rpush of line 360 left out.
Upsert_NoRpush(db, sv) ==
    IF sv.EPOCH = Missing
    THEN [db |-> db, outcome |-> "KeyError"]
    ELSE IF ~RdExists(db, sv.EPOCH)
    THEN [db |-> RdSet(db, sv.EPOCH, json_dumps(sv)), outcome |-> "Inserted"]
    ELSE IF json_loads(RdGet(db, sv.EPOCH)) # sv
    THEN [db |-> RdSet(db, sv.EPOCH, json_dumps(sv)), outcome |-> "Updated"]
    ELSE [db |-> db, outcome |-> "Unchanged"]

\* Upsert with the rpush moved after the if/else, so that it also runs when
\* an existing EPOCH is updated.
Upsert_RpushOnUpdate(db, sv) ==
    IF sv.EPOCH = Missing
    THEN [db |-> db, outcome |-> "KeyError"]
    ELSE IF ~RdExists(db, sv.EPOCH)
    THEN [db |-> RdRpush(RdSet(db, sv.EPOCH, json_dumps(sv)), sv.EPOCH),
          outcome |-> "Inserted"]
    ELSE IF json_loads(RdGet(db, sv.EPOCH)) # sv
    THEN [db |-> RdRpush(RdSet(db, sv.EPOCH, json_dumps(sv)), sv.EPOCH),
          outcome |-> "Updated"]
    ELSE [db |-> db, outcome |-> "Unchanged"]

\* Upsert that, on a differing value, takes the key out of the list and
\* pushes it again at the tail.
Upsert_MoveOnUpdate(db, sv) ==
    IF sv.EPOCH = Missing
    THEN [db |-> db, outcome |-> "KeyError"]
    ELSE IF ~RdExists(db, sv.EPOCH)
    THEN [db |-> RdRpush(RdSet(db, sv.EPOCH, json_dumps(sv)), sv.EPOCH),
          outcome |-> "Inserted"]
    ELSE IF json_loads(RdGet(db, sv.EPOCH)) # sv
    THEN [db |-> RdRpush([RdSet(db, sv.EPOCH, json_dumps(sv)) EXCEPT
                            !.iss_keys = SelectSeq(@, LAMBDA k : k # sv.EPOCH)],
                         sv.EPOCH),
          outcome |-> "Updated"]
    ELSE [db |-> db, outcome |-> "Unchanged"]

\* Upsert with the rd.set of line 366 left out: a differing value is noticed
\* but the stored one is kept.
Upsert_KeepsStored(db, sv) ==
    IF sv.EPOCH = Missing
    THEN [db |-> db, outcome |-> "KeyError"]
    ELSE IF ~RdExists(db, sv.EPOCH)
    THEN [db |-> RdRpush(RdSet(db, sv.EPOCH, json_dumps(sv)), sv.EPOCH),
          outcome |-> "Inserted"]
    ELSE IF json_loads(RdGet(db, sv.EPOCH)) # sv
    THEN [db |-> db, outcome |-> "Updated"]
    ELSE [db |-> db, outcome |-> "Unchanged"]

Upsert(db, sv) ==
    IF sv.EPOCH = Missing
    THEN [db |-> db, outcome |-> "KeyError"]
    ELSE IF ~RdExists(db, sv.EPOCH)
    THEN [db |-> RdRpush(RdSet(db, sv.EPOCH, json_dumps(sv)), sv.EPOCH),
          outcome |-> "Inserted"]
    ELSE LET stored_data == json_loads(RdGet(db, sv.EPOCH))
         IN  IF stored_data # sv
             THEN [db |-> RdSet(db, sv.EPOCH, json_dumps(sv)), outcome |-> "Updated"]
             ELSE [db |-> db, outcome |-> "Unchanged"]

\* The loop: the samples in feed order; a KeyError leaves the loop and the
\* handler with everything written so far in place.
RECURSIVE Reconcile(_, _, _, _)
Reconcile(db, svs, i, log) ==
    IF i > Len(svs)
    THEN [db |-> db, log |-> log, fault |-> FALSE]
    ELSE LET r == Upsert(db, svs[i])
         IN  IF r.outcome = "KeyError"
             THEN [db |-> r.db, log |-> Append(log, r.outcome), fault |-> TRUE]
             ELSE Reconcile(r.db, svs, i + 1, Append(log, r.outcome))

Slice(s, offset, limit) ==
    LET hi == IF offset + limit < Len(s) THEN offset + limit ELSE Len(s)
    IN  IF offset >= hi THEN <<>> ELSE SubSeq(s, offset + 1, hi)

\* Lines 371-388: the parameters, the range check and the listing.
Listing(db, n_feed, limit, offset) ==
    LET lim == int_arg(limit, n_feed)
        off == int_arg(offset, 0)
        epoch_keys == RdLrange(db)
    IN  IF ~lim.ok THEN ErrorResp("limit parameter must be an integer")
        ELSE IF ~off.ok THEN ErrorResp("offset parameter must be an integer")
        ELSE IF off.n >= n_feed THEN ErrorResp("offset param. out of range.")
        ELSE IF \E i \in 1..Len(epoch_keys) : RdGet(db, epoch_keys[i]) = Nil
        THEN Fault("TypeError")
        ELSE ListResp(Slice([i \in 1..Len(epoch_keys) |->
                                json_loads(RdGet(db, epoch_keys[i]))],
                            off.n, lim.n))

read_iss_data(db, feed, limit, offset) ==
    CASE feed.kind = "unreachable" ->
            [db |-> db, log |-> <<>>, resp |-> ErrorResp("failed to fetch iss data")]
      [] feed.kind \in {"notxml", "nopath"} ->
            [db |-> db, log |-> <<>>, resp |-> ErrorResp("error parsing XML data")]
      [] feed.kind = "empty" ->
            [db |-> db, log |-> <<>>, resp |-> ErrorResp("No ISSS StateVectors found")]
      [] feed.kind \in {"nullpath", "single"} ->
            [db |-> db, log |-> <<>>, resp |-> Fault("TypeError")]
      [] feed.kind = "list" ->
            LET r == Reconcile(db, feed.svs, 1, <<>>)
            IN  [db |-> r.db, log |-> r.log,
                 resp |-> IF r.fault THEN Fault("KeyError")
                          ELSE Listing(r.db, Len(feed.svs), limit, offset)]

(***************************************************************************)
(* epoch_data (lines 390-407).  The result is the dict it returns, tagged  *)
(* "error" when it is {'error': ...} and "sv" when it is a state vector.   *)
(***************************************************************************)
epoch_data(db, epoch) ==
    IF ~RdExists(db, epoch)
    THEN ErrorResp("No matching EPOCH")
    ELSE IF epoch = IssKeysName
    THEN Fault("ResponseError")      \* GET on a list: WRONGTYPE
    ELSE [kind |-> "sv", body |-> json_loads(RdGet(db, epoch))]

EpochDataResp(db, epoch) ==
    LET r == epoch_data(db, epoch)
    IN  IF r.kind = "sv" THEN DictResp(r.body) ELSE r

(***************************************************************************)
(* compute_speed (lines 452-464): math.sqrt of the sum of squares, kept    *)
(* here in thousandths (the floor of 1000 * sqrt).                         *)
(***************************************************************************)
RECURSIVE IsqrtBetween(_, _, _)
IsqrtBetween(n, lo, hi) ==
    IF lo >= hi THEN lo
    ELSE LET mid == (lo + hi + 1) \div 2
         IN  IF mid * mid <= n
             THEN IsqrtBetween(n, mid, hi)
             ELSE IsqrtBetween(n, lo, mid - 1)

\* compute_speed with the z component left out of the sum.
compute_speed_NoZ(x_velocity, y_velocity, z_velocity) ==
    LET sq == x_velocity * x_velocity + y_velocity * y_velocity
    IN  IsqrtBetween(sq * 1000000, 0, 1000 * (sq + 1))

compute_speed(x_velocity, y_velocity, z_velocity) ==
    LET sq == x_velocity * x_velocity + y_velocity * y_velocity
              + z_velocity * z_velocity
    IN  IsqrtBetween(sq * 1000000, 0, 1000 * (sq + 1))

(***************************************************************************)
(* epoch_speed (lines 467-501).                                            *)
(***************************************************************************)
epoch_speed(db, epoch) ==
    LET state_vec == epoch_data(db, epoch)
    IN  IF state_vec.kind # "sv"
        THEN state_vec
        ELSE DictResp(("EPOCH" :> epoch) @@
                      ("instant speed" :> compute_speed(state_vec.body.vel[1],
                                                        state_vec.body.vel[2],
                                                        state_vec.body.vel[3])))

(***************************************************************************)
(* now_epoch_speed (lines 410-450).                                        *)
(***************************************************************************)
Abs(x) == IF x < 0 THEN -x ELSE x

Inf == [inf |-> TRUE, v |-> 0]
Finite(x) == [inf |-> FALSE, v |-> x]

\* a < m for an integer a and a float m that may be float("inf").
LessThan(a, m) == m.inf \/ a < m.v

\* One iteration of the loop of lines 437-446 on scan state
\* st = [closest_epoch_key, min_time_diff, fault].
ScanStep(st, epoch_key, now_time_in_seconds) ==
    LET t == strptime(epoch_key)
        dict_time_in_seconds == mktime(t)
        latest_time_diff == now_time_in_seconds - dict_time_in_seconds
    IN  IF ~t.ok
        THEN [st EXCEPT !.fault = TRUE]
        ELSE IF LessThan(Abs(latest_time_diff), st.min_time_diff)
        THEN [closest_epoch_key |-> epoch_key,
              min_time_diff |-> Finite(latest_time_diff),
              fault |-> FALSE]
        ELSE st

RECURSIVE Scan(_, _, _, _)
Scan(st, epoch_keys, i, now_time_in_seconds) ==
    IF i > Len(epoch_keys) \/ st.fault
    THEN st
    ELSE Scan(ScanStep(st, epoch_keys[i], now_time_in_seconds),
              epoch_keys, i + 1, now_time_in_seconds)

ScanInit == [closest_epoch_key |-> Missing, min_time_diff |-> Inf, fault |-> FALSE]

\* The key the scan resolves for the keys and the target time.
Nearest(epoch_keys, now_time_in_seconds) ==
    Scan(ScanInit, epoch_keys, 1, now_time_in_seconds)

\* now_epoch_speed with the test of lines 431-432 left out: on an empty list
\* closest_epoch_key stays None and goes on to epoch_speed, whose rd.exists
\* refuses it.
now_epoch_speed_NoEmptyCheck(db, now_time_in_seconds) ==
    LET epoch_keys == RdLrange(db)
        st == Nearest(epoch_keys, now_time_in_seconds)
    IN  IF st.fault
        THEN Fault("ValueError")
        ELSE IF st.closest_epoch_key = Missing
        THEN Fault("DataError")
        ELSE epoch_speed(db, st.closest_epoch_key)

now_epoch_speed(db, now_time_in_seconds) ==
    LET epoch_keys == RdLrange(db)
        st == Nearest(epoch_keys, now_time_in_seconds)
    IN  IF epoch_keys = <<>>
        THEN ErrorResp("Database is empty.")
        ELSE IF st.fault
        THEN Fault("ValueError")
        ELSE epoch_speed(db, st.closest_epoch_key)

(***************************************************************************)
(* epoch_location (lines 579-608) with compute_location_astropy (lines     *)
(* 504-539).  transform_ok is the outcome of the astropy transform.        *)
(***************************************************************************)
compute_location_astropy(state_vec, transform_ok) ==
    IF state_vec.kind # "sv"
    THEN "None"                                \* KeyError on sv['X'], caught
    ELSE IF ~strptime(state_vec.body.EPOCH).ok
    THEN "None"                                \* ValueError, caught
    ELSE IF transform_ok THEN "LatLonAlt" ELSE "raise"

epoch_location(db, epoch, transform_ok) ==
    LET state_vec == epoch_data(db, epoch)
        loc == IF state_vec.kind = "fault" THEN "raise"
               ELSE compute_location_astropy(state_vec, transform_ok)
    IN  IF state_vec.kind = "fault" THEN state_vec
        ELSE IF loc = "None"
        THEN ErrorResp("Failed to Extract Latitude, Longitude, and Height.")
        ELSE IF loc = "raise" THEN Fault("TransformError")
        ELSE Fault("NameError")                \* jsonify is not imported

(***************************************************************************)
(* compute_nearest_geolocation (lines 542-576).  The reverse geocoder is   *)
(* an outside service: each query is answered with no match (None), a      *)
(* place that carries a display name, or a place that carries none.  geo   *)
(* is the call in progress: where it stands, its zoom_level and geoloc,    *)
(* every query sent so far and the string returned.  epoch_location runs   *)
(* the call at line 606 and hands its result to the jsonify of line 608.   *)
(***************************************************************************)
start_zoom_level == 15
max_zoom_level == 18
min_zoom_level == 10

Coords == {<<0, 0>>, <<30, -97>>}

GeoAnswers == {"None", "named", "unnamed"}

NotFoundText == "No Nearest Geolocation Found. ISS might be hovering over an ocean."

\* geocoder.reverse((lat, lon), zoom=zoom_level, language='en') as sent
Query(lat, lon, zoom) == [lat |-> lat, lon |-> lon, zoom |-> zoom]

GeoIdle == [pc |-> "idle", lat |-> 0, lon |-> 0, zoom_level |-> start_zoom_level,
            geoloc |-> "None", queries |-> <<>>, result |-> ""]

(***************************************************************************)
(* The service, one request at a time.  kv and iss_keys are the Redis      *)
(* database; last is the request handled last, with what it answered and   *)
(* the branch the ingest loop took for each sample.                        *)
(***************************************************************************)
NoFeed == [kind |-> "none", svs |-> <<>>]

Request(op, feed, limit, offset, epoch, now) ==
    [op |-> op, feed |-> feed, limit |-> limit, offset |-> offset,
     epoch |-> epoch, now |-> now]

NoRequest == Request("none", NoFeed, Absent, Absent, Missing, 0)

Nows == {mktime(strptime(K1)) + d : d \in -1..5}

Db == [kv |-> kv, iss_keys |-> iss_keys]

Idle == [pc |-> "idle", svs |-> <<>>, i |-> 0, limit |-> Absent, offset |-> Absent,
         epoch_keys |-> <<>>, out |-> <<>>, log |-> <<>>,
         resp |-> [kind |-> "none", body |-> <<>>]]

Init ==
    /\ kv = EmptyDb.kv
    /\ iss_keys = EmptyDb.iss_keys
    /\ last = [req |-> NoRequest, log |-> <<>>, resp |-> [kind |-> "none", body |-> <<>>]]
    /\ proc = [w \in Workers |-> Idle]
    /\ geo = GeoIdle

\* GET /epochs, for a feed of F and query parameters of P.
ReadIssData(F, P) ==
    \E feed \in F, limit \in P, offset \in P :
        LET r == read_iss_data(Db, feed, limit, offset)
        IN  /\ kv' = r.db.kv
            /\ iss_keys' = r.db.iss_keys
            /\ last' = [req |-> Request("epochs", feed, limit, offset, Missing, 0),
                        log |-> r.log, resp |-> r.resp]
            /\ UNCHANGED <<proc, geo>>

\* EpochData that remembers a miss: an epoch asked for and not found is
\* stored with an empty state vector.
EpochData_CachesMiss ==
    \E epoch \in ReqKeys :
        /\ last' = [req |-> Request("epoch", NoFeed, Absent, Absent, epoch, 0),
                    log |-> <<>>, resp |-> EpochDataResp(Db, epoch)]
        /\ kv' = IF epoch \in EpochKeys /\ ~RdExists(Db, epoch)
                 THEN RdSet(Db, epoch, json_dumps(StateVector(epoch, <<0, 0, 0>>))).kv
                 ELSE kv
        /\ UNCHANGED <<iss_keys, proc, geo>>

\* GET /epochs/<epoch>
EpochData ==
    \E epoch \in ReqKeys :
        /\ last' = [req |-> Request("epoch", NoFeed, Absent, Absent, epoch, 0),
                    log |-> <<>>, resp |-> EpochDataResp(Db, epoch)]
        /\ UNCHANGED <<kv, iss_keys, proc, geo>>

\* GET /epochs/<epoch>/speed
EpochSpeed ==
    \E epoch \in ReqKeys :
        /\ last' = [req |-> Request("speed", NoFeed, Absent, Absent, epoch, 0),
                    log |-> <<>>, resp |-> epoch_speed(Db, epoch)]
        /\ UNCHANGED <<kv, iss_keys, proc, geo>>

\* GET /epochs/<epoch>/location
EpochLocation ==
    \E epoch \in ReqKeys, transform_ok \in BOOLEAN :
        /\ last' = [req |-> Request("location", NoFeed, Absent, Absent, epoch, 0),
                    log |-> <<>>, resp |-> epoch_location(Db, epoch, transform_ok)]
        /\ UNCHANGED <<kv, iss_keys, proc, geo>>

\* GET /now
NowEpochSpeed ==
    \E now \in Nows :
        /\ last' = [req |-> Request("now", NoFeed, Absent, Absent, Missing, now),
                    log |-> <<>>, resp |-> now_epoch_speed(Db, now)]
        /\ UNCHANGED <<kv, iss_keys, proc, geo>>

Reads == EpochData \/ EpochSpeed \/ EpochLocation \/ NowEpochSpeed

\* Every feed, with GET /epochs called without query parameters.
Next == ReadIssData(Feeds, {Absent}) \/ Reads

Spec == Init /\ [][Next]_vars

\* Every combination of limit and offset, with the two-element feeds over
\* three well-formed state vectors (two of them within the same second).
QuerySamples == {S1a, S2, S3}
QueryFeeds == {[kind |-> "list", svs |-> f] : f \in SeqsUpTo(QuerySamples, 2, 2)}

NextQuery == ReadIssData(QueryFeeds, ParamValues) \/ Reads

SpecQuery == Init /\ [][NextQuery]_vars

\* Every way the feed can fail, with every limit and offset.
ParamSamples == {S1a, SNoEpoch}
ParamFeeds ==
    FeedFailures \cup {[kind |-> "single", svs |-> <<S1a>>]}
                 \cup {[kind |-> "list", svs |-> f] : f \in SeqsUpTo(ParamSamples, 2, 2)}

NextParams == ReadIssData(ParamFeeds, ParamValues) \/ Reads

SpecParams == Init /\ [][NextParams]_vars

\* compute_speed on every velocity of a bounded range: the store holds one
\* state vector with that velocity and GET /epochs/<epoch>/speed is asked.
MaxVel == 4
Vels == (-MaxVel)..MaxVel

InitSpeed ==
    /\ \E x, y, z \in Vels :
          kv = RdSet(EmptyDb, K1, json_dumps(StateVector(K1, <<x, y, z>>))).kv
    /\ iss_keys = <<K1>>
    /\ last = [req |-> NoRequest, log |-> <<>>, resp |-> [kind |-> "none", body |-> <<>>]]
    /\ proc = [w \in Workers |-> Idle]
    /\ geo = GeoIdle

NextSpeed == EpochSpeed

SpecSpeed == InitSpeed /\ [][NextSpeed]_vars

(***************************************************************************)
(* Concurrent GET /epochs.  Flask serves each request on its own thread    *)
(* and nothing in read_iss_data takes a lock, so the handlers of two       *)
(* requests interleave between any two Redis commands.  Each worker runs   *)
(* read_iss_data one Redis command per step; proc[w] is its local state.   *)
(***************************************************************************)
ConcSamples == {S1a, S1b, S3}
ConcFeeds == {[kind |-> "list", svs |-> f] : f \in SeqsUpTo(ConcSamples, 2, 2)}

Sv(w) == proc[w].svs[proc[w].i]

Finish(w, resp) ==
    proc' = [proc EXCEPT ![w] = [Idle EXCEPT !.log = proc[w].log, !.resp = resp]]

\* The end of one iteration of the loop of line 350, outcome being the
\* branch it took.
Advance(w, outcome) ==
    proc' = [proc EXCEPT ![w].log = Append(@, outcome),
                         ![w].i = @ + 1,
                         ![w].pc = IF proc[w].i + 1 > Len(proc[w].svs)
                                   THEN "lrange" ELSE "exists"]

\* Lines 330-347: the pull of the feed.
Begin(w) ==
    /\ proc[w].pc = "idle"
    /\ \E feed \in ConcFeeds :
          proc' = [proc EXCEPT ![w] = [Idle EXCEPT !.pc = "exists", !.svs = feed.svs,
                                                   !.i = 1]]
    /\ UNCHANGED <<kv, iss_keys, last, geo>>

\* Line 355: rd.exists(epoch)
Exists(w) ==
    /\ proc[w].pc = "exists"
    /\ proc' = [proc EXCEPT ![w].pc = IF RdExists(Db, Sv(w).EPOCH)
                                      THEN "get" ELSE "set_new"]
    /\ UNCHANGED <<kv, iss_keys, last, geo>>

\* SetNew with the rd.set put off: the key goes on to the rpush with no
\* sample written under it.
SetNew_NoWrite(w) ==
    /\ proc[w].pc = "set_new"
    /\ proc' = [proc EXCEPT ![w].pc = "rpush"]
    /\ UNCHANGED <<kv, iss_keys, last, geo>>

\* Line 358: rd.set(epoch, json.dumps(sv))
SetNew(w) ==
    /\ proc[w].pc = "set_new"
    /\ kv' = RdSet(Db, Sv(w).EPOCH, json_dumps(Sv(w))).kv
    /\ proc' = [proc EXCEPT ![w].pc = "rpush"]
    /\ UNCHANGED <<iss_keys, last, geo>>

\* Line 360: rd.rpush('iss_keys', epoch)
Rpush(w) ==
    /\ proc[w].pc = "rpush"
    /\ iss_keys' = RdRpush(Db, Sv(w).EPOCH).iss_keys
    /\ Advance(w, "Inserted")
    /\ UNCHANGED <<kv, last, geo>>

\* Lines 363-364: rd.get(epoch) and the comparison
Get(w) ==
    /\ proc[w].pc = "get"
    /\ IF json_loads(RdGet(Db, Sv(w).EPOCH)) # Sv(w)
       THEN proc' = [proc EXCEPT ![w].pc = "set_upd"]
       ELSE Advance(w, "Unchanged")
    /\ UNCHANGED <<kv, iss_keys, last, geo>>

\* Line 366: rd.set(epoch, json.dumps(sv))
SetUpd(w) ==
    /\ proc[w].pc = "set_upd"
    /\ kv' = RdSet(Db, Sv(w).EPOCH, json_dumps(Sv(w))).kv
    /\ Advance(w, "Updated")
    /\ UNCHANGED <<iss_keys, last, geo>>

\* Line 384: rd.lrange('iss_keys', 0, -1) (no query parameters: lines
\* 371-381 pass)
Lrange(w) ==
    /\ proc[w].pc = "lrange"
    /\ proc' = [proc EXCEPT ![w].pc = "collect", ![w].epoch_keys = RdLrange(Db)]
    /\ UNCHANGED <<kv, iss_keys, last, geo>>

\* Line 385: one rd.get per key, then line 388 after the last.
Collect(w) ==
    /\ proc[w].pc = "collect"
    /\ LET out == proc[w].out
           n == Len(out)
       IN  IF n = Len(proc[w].epoch_keys)
           THEN Finish(w, ListResp(Slice(out, 0, Len(proc[w].svs))))
           ELSE proc' = [proc EXCEPT ![w].out =
                            Append(out, json_loads(RdGet(Db, proc[w].epoch_keys[n + 1])))]
    /\ UNCHANGED <<kv, iss_keys, last, geo>>

NextConc ==
    \E w \in Workers :
        \/ Begin(w)
        \/ Exists(w)
        \/ SetNew(w)
        \/ Rpush(w)
        \/ Get(w)
        \/ SetUpd(w)
        \/ Lrange(w)
        \/ Collect(w)

SpecConc == Init /\ [][NextConc]_vars

(***************************************************************************)
(* compute_nearest_geolocation, one query per step.                        *)
(***************************************************************************)
\* Lines 554-558: the call is entered with the coordinates of line 606.
GeoCall ==
    \E c \in Coords :
        /\ geo.pc = "idle"
        /\ geo' = [GeoIdle EXCEPT !.pc = "reverse", !.lat = c[1], !.lon = c[2]]
        /\ UNCHANGED <<kv, iss_keys, last, proc>>

\* Line 559: the first query, at the starting zoom.
Reverse ==
    \E answer \in GeoAnswers :
        /\ geo.pc = "reverse"
        /\ geo' = [geo EXCEPT !.pc = "zoom_in", !.geoloc = answer,
                              !.queries = Append(@, Query(geo.lat, geo.lon,
                                                          geo.zoom_level))]
        /\ UNCHANGED <<kv, iss_keys, last, proc>>

\* Lines 563-567: the test of the first while, then one iteration of it or
\* the reset of zoom_level after it.
ZoomIn ==
    \E answer \in GeoAnswers :
        /\ geo.pc = "zoom_in"
        /\ IF geo.zoom_level <= max_zoom_level /\ geo.geoloc = "None"
           THEN geo' = [geo EXCEPT !.zoom_level = @ + 1, !.geoloc = answer,
                                   !.queries = Append(@, Query(geo.lat, geo.lon,
                                                               geo.zoom_level + 1))]
           ELSE geo' = [geo EXCEPT !.pc = "zoom_out", !.zoom_level = start_zoom_level]
        /\ UNCHANGED <<kv, iss_keys, last, proc>>

\* ZoomOut whose while tests the zoom level only, not geoloc: it goes on
\* querying after a match.
ZoomOut_IgnoresMatch ==
    \E answer \in GeoAnswers :
        /\ geo.pc = "zoom_out"
        /\ IF geo.zoom_level >= min_zoom_level
           THEN geo' = [geo EXCEPT !.zoom_level = @ - 1, !.geoloc = answer,
                                   !.queries = Append(@, Query(geo.lat, geo.lon,
                                                               geo.zoom_level - 1))]
           ELSE geo' = [geo EXCEPT !.pc = "return"]
        /\ UNCHANGED <<kv, iss_keys, last, proc>>

\* Lines 569-571: the test of the second while, then one iteration of it.
ZoomOut ==
    \E answer \in GeoAnswers :
        /\ geo.pc = "zoom_out"
        /\ IF geo.zoom_level >= min_zoom_level /\ geo.geoloc = "None"
           THEN geo' = [geo EXCEPT !.zoom_level = @ - 1, !.geoloc = answer,
                                   !.queries = Append(@, Query(geo.lat, geo.lon,
                                                               geo.zoom_level - 1))]
           ELSE geo' = [geo EXCEPT !.pc = "return"]
        /\ UNCHANGED <<kv, iss_keys, last, proc>>

\* Lines 573-576: the string handed back.
GeoReturn ==
    /\ geo.pc = "return"
    /\ geo' = [geo EXCEPT !.pc = "idle",
                          !.result = IF geo.geoloc = "None" THEN NotFoundText
                                     ELSE IF geo.geoloc = "named" THEN "display_name"
                                     ELSE "Unknown Geolocation"]
    /\ UNCHANGED <<kv, iss_keys, last, proc>>

NextGeo == GeoCall \/ Reverse \/ ZoomIn \/ ZoomOut \/ GeoReturn

SpecGeo == Init /\ [][NextGeo]_vars

\* A call that was entered runs on: the function is straight-line code and
\* two loops, and each geocoder.reverse comes back with an answer.
GeoRuns == Reverse \/ ZoomIn \/ ZoomOut \/ GeoReturn

SpecGeoLive == SpecGeo /\ WF_vars(GeoRuns)

(***************************************************************************)
(* Properties.                                                             *)
(***************************************************************************)
Range(s) == {s[i] : i \in 1..Len(s)}

Count(s, x) == Cardinality({i \in 1..Len(s) : s[i] = x})

NoDuplicates(s) == \A i, j \in 1..Len(s) : i # j => s[i] # s[j]

StoredKeys == {k \in EpochKeys : kv[k] # Nil}

\* listAll(): the stored samples in Index order.
ListAll == [i \in 1..Len(iss_keys) |-> json_loads(kv[iss_keys[i]])]

AllIdle == \A w \in Workers : proc[w].pc = "idle"

Ingested == last.req.op = "epochs" /\ last.req.feed.kind = "list"

\* C1: under every interleaving of concurrent GET /epochs ingestions the
\* Index 'iss_keys' never holds the same epoch twice (exactly one of the
\* racing ingestions appends a new epoch).
C1_NoDuplicateAppend == NoDuplicates(iss_keys)

\* C2: with no request in progress, the set of keys in the Index equals the
\* set of epoch keys that have a stored sample.
C2_IndexMatchesStore == AllIdle => Range(iss_keys) = StoredKeys

C2_Witness ==
    /\ Ingested
    /\ Len(last.log) = 2
    /\ last.log[2] = "KeyError"
    /\ last.resp.kind = "fault"
    /\ Len(iss_keys) >= 2

\* C3: after sequentially reconciling any sequence of feeds, a feed with the
\* same epoch more than once included, every epoch reconciled appears in the
\* Index exactly once and no epoch appears twice.
C3_EachEpochOnce ==
    /\ NoDuplicates(iss_keys)
    /\ Ingested =>
          \A i \in 1..Len(last.log) :
              last.log[i] # "KeyError" =>
                  Count(iss_keys, last.req.feed.svs[i].EPOCH) = 1

C3_Witness ==
    /\ Ingested
    /\ Len(last.log) = Len(last.req.feed.svs)
    /\ last.resp.kind = "list"
    /\ last.req.feed.svs[1].EPOCH = last.req.feed.svs[2].EPOCH
    /\ last.req.feed.svs[1] # last.req.feed.svs[2]
    /\ Len(iss_keys) >= 2

\* C4: upserting the same key with the same value twice in a row gives
\* Inserted then Unchanged, the Index grows by one in total and the second
\* upsert writes nothing; reconciling the feed of the previous request again
\* leaves the Store and the Index as that request left them.
C4_Step ==
    LET svs == last'.req.feed.svs
        log == last'.log
        twice == svs[1] = svs[2] /\ svs[1].EPOCH # Missing
    IN  (last'.req.op = "epochs" /\ last'.req.feed.kind = "list") =>
          /\ \A i \in 1..(Len(log) - 1) :
                svs[i] = svs[i + 1] => log[i + 1] = "Unchanged"
          /\ (twice /\ kv[svs[1].EPOCH] = Nil) =>
                /\ log[1] = "Inserted"
                /\ Count(iss_keys', svs[1].EPOCH) = Count(iss_keys, svs[1].EPOCH) + 1
          /\ (twice /\ Len(svs) = 2 /\ kv[svs[1].EPOCH] = Nil) =>
                /\ kv' = [kv EXCEPT ![svs[1].EPOCH] = json_dumps(svs[1])]
                /\ iss_keys' = Append(iss_keys, svs[1].EPOCH)
          /\ (Ingested /\ last'.req.feed = last.req.feed) =>
                /\ kv' = kv
                /\ iss_keys' = iss_keys

C4_Idempotent == [][C4_Step]_vars

C4_Witness ==
    /\ Ingested
    /\ last.req.feed.svs[1] = last.req.feed.svs[2]
    /\ last.log[1] = "Inserted"
    /\ last.log[2] = "Unchanged"
    /\ Len(iss_keys) >= 2

\* The distance in time between a key of the Index and a target time.
Dist(k, now) == Abs(now - mktime(strptime(k)))

AllKeysParse == \A i \in 1..Len(iss_keys) : strptime(iss_keys[i]).ok

AnsweredNow == last.req.op = "now" /\ iss_keys # <<>>

\* C5: for a non-empty Index whose keys all parse, the key GET /now resolves
\* is at a distance from the target time no greater than that of any key of
\* the Index.
C5_NearestIsMinimal ==
    (AnsweredNow /\ AllKeysParse) =>
        /\ last.resp.kind = "dict"
        /\ \A i \in 1..Len(iss_keys) :
              Dist(last.resp.body.EPOCH, last.req.now) <= Dist(iss_keys[i], last.req.now)

\* C6: when several keys are at the minimal distance from the target time,
\* GET /now resolves the one that comes first in the Index.
Minimal(i) ==
    \A j \in 1..Len(iss_keys) :
        Dist(iss_keys[i], last.req.now) <= Dist(iss_keys[j], last.req.now)

Tied == Cardinality({i \in 1..Len(iss_keys) : Minimal(i)}) >= 2

C6_FirstOfTies ==
    (AnsweredNow /\ AllKeysParse /\ Tied) =>
        LET first == CHOOSE i \in 1..Len(iss_keys) :
                         Minimal(i) /\ \A j \in 1..(i - 1) : ~Minimal(j)
        IN  /\ last.resp.kind = "dict"
            /\ last.resp.body.EPOCH = iss_keys[first]

IntGiven(param) == param.given /\ param.isInt

\* C7: for an integer limit >= 0 and an integer offset with
\* 0 <= offset < number of stored samples, GET /epochs returns the samples at
\* Index positions offset .. offset+limit-1 of listAll(), cut at its end.
C7_SliceOfListAll ==
    (Ingested /\ IntGiven(last.req.limit) /\ IntGiven(last.req.offset)
       /\ last.req.offset.n < Len(iss_keys)) =>
        LET rest == Len(iss_keys) - last.req.offset.n
            n == IF last.req.limit.n < rest THEN last.req.limit.n ELSE rest
        IN  /\ last.resp.kind = "list"
            /\ Len(last.resp.body) = n
            /\ \A j \in 1..n : last.resp.body[j] = ListAll[last.req.offset.n + j]

\* C8: when offset is an integer >= the number of stored samples (and limit
\* is acceptable), GET /epochs answers {error: "offset param. out of range."}.
C8_OffsetBeyondStoreIsError ==
    (Ingested /\ int_arg(last.req.limit, 0).ok /\ IntGiven(last.req.offset)
       /\ last.req.offset.n >= Len(iss_keys)) =>
        /\ last.resp.kind = "error"
        /\ last.resp.body = "offset param. out of range."

\* C9: no request ends in an unhandled fault: every response is a success
\* payload or a structured {error: ...} payload.
C9_NoUnhandledFault == last.resp.kind # "fault"

\* C10: GET /now on an Index that holds a malformed epoch string ends with a
\* structured {error: ...} payload.
C10_MalformedKeyIsError ==
    (AnsweredNow /\ ~AllKeysParse) => last.resp.kind = "error"

\* C11: GET /now on an empty Index answers the {error} payload 'Database is
\* empty.' and goes no further: no key is selected, no sample is looked up,
\* no speed is computed.
C11_EmptyIndexIsError ==
    (last.req.op = "now" /\ iss_keys = <<>>) =>
        /\ last.resp.kind = "error"
        /\ last.resp.body = "Database is empty."

C11_Witness ==
    /\ last.req.op = "now"
    /\ iss_keys = <<>>
    /\ last.resp.kind = "error"

\* C12: for every requested key that is not the epoch of a stored sample,
\* whatever else the database holds under that name, GET /epochs/{key},
\* GET /epochs/{key}/speed and GET /epochs/{key}/location each answer an
\* {error} payload; for a stored epoch GET /epochs/{key} answers exactly the
\* stored sample.
C12_UnknownKeyIsError ==
    /\ (last.req.op \in {"epoch", "speed", "location"} /\ last.req.epoch \notin StoredKeys)
          => last.resp.kind = "error"
    /\ (last.req.op = "epoch" /\ last.req.epoch \in StoredKeys) =>
          /\ last.resp.kind = "dict"
          /\ last.resp.body = json_loads(kv[last.req.epoch])

\* The samples of the feed handled before the loop left it.
Processed(log) ==
    IF log # <<>> /\ log[Len(log)] = "KeyError" THEN Len(log) - 1 ELSE Len(log)

\* C13: when the upsert at position i fails during reconciliation, the i
\* samples merged before it stay in the store, no later sample is handled,
\* and the answer reports the failure together with the number of samples
\* that succeeded before it.
C13_PartialFailureReported ==
    LET svs == last.req.feed.svs
        log == last.log
        i == Processed(log)
    IN  (Ingested /\ i < Len(log)) =>
          /\ \A j \in 1..i : svs[j].EPOCH \in StoredKeys \cap Range(iss_keys)
          /\ Len(log) <= Len(svs)
          /\ last.resp.kind = "error"
          /\ last.resp.body = [error |-> "KeyError", succeeded |-> i]

IsPrefix(s, t) == Len(s) <= Len(t) /\ SubSeq(t, 1, Len(s)) = s

\* C14: no request deletes a sample: the set of stored epoch keys only
\* grows, and the Index before a request is a prefix of the Index after it.
C14_Step ==
    /\ StoredKeys \subseteq StoredKeys'
    /\ IsPrefix(iss_keys, iss_keys')

C14_NeverDeleted == [][C14_Step]_vars

C14_Witness ==
    /\ Ingested
    /\ Len(iss_keys) = 3
    /\ last.log[1] = "Updated"

\* C15: GET /epochs with a limit or offset that is not an integer answers an
\* {error} payload naming the offending parameter ('limit parameter must be
\* an integer', 'offset parameter must be an integer') and never a list.
\* The feed is fetched and merged before the parameters are read, so the
\* parameter is looked for in the answer only when the feed gave a list.
C15_NonIntegerParamIsError ==
    (last.req.op = "epochs" /\ (last.req.limit = NonInt \/ last.req.offset = NonInt)) =>
        /\ last.resp.kind = "error"
        /\ last.req.feed.kind = "list" =>
              last.resp.body = IF last.req.limit = NonInt
                               THEN "limit parameter must be an integer"
                               ELSE "offset parameter must be an integer"

\* C16: on a non-empty store of well-formed samples GET /now answers a
\* dictionary that has the key "now_EPOCH".
C16_NowHasNowEpochKey ==
    (AnsweredNow /\ AllKeysParse) =>
        /\ last.resp.kind = "dict"
        /\ "now_EPOCH" \in DOMAIN last.resp.body

LastOccurrence(svs, n, i) ==
    CHOOSE j \in i..n :
        /\ svs[j].EPOCH = svs[i].EPOCH
        /\ \A k \in (j + 1)..n : svs[k].EPOCH # svs[i].EPOCH

\* C18: when reconcile meets an epoch that is already stored with a
\* different value, the stored value is overwritten and the Index keeps its
\* length and the key its position; after the reconcile the stored value of
\* every epoch of the feed is that of its last occurrence in the feed.
C18_Step ==
    LET svs == last'.req.feed.svs
        log == last'.log
        n == Processed(log)
    IN  (last'.req.op = "epochs" /\ last'.req.feed.kind = "list") =>
          /\ \A i \in 1..n :
                (/\ kv[svs[i].EPOCH] # Nil
                 /\ json_loads(kv[svs[i].EPOCH]) # svs[i]
                 /\ \A j \in 1..(i - 1) : svs[j].EPOCH # svs[i].EPOCH)
                => /\ log[i] = "Updated"
                   /\ \E p \in 1..Len(iss_keys) :
                         iss_keys[p] = svs[i].EPOCH /\ iss_keys'[p] = svs[i].EPOCH
          /\ Len(iss_keys') = Len(iss_keys) + Count(log, "Inserted")
          /\ \A i \in 1..n :
                json_loads(kv'[svs[i].EPOCH]) = svs[LastOccurrence(svs, n, i)]

C18_LastOccurrenceWins == [][C18_Step]_vars

C18_Witness ==
    /\ Ingested
    /\ last.log = <<"Updated", "Updated">>
    /\ json_loads(kv[K1]) = last.req.feed.svs[2]

\* The epochs of svs[i..n] that db does not hold, each at its first
\* occurrence, in feed order.
RECURSIVE NewEpochs(_, _, _, _)
NewEpochs(svs, i, n, seen) ==
    IF i > n THEN <<>>
    ELSE IF svs[i].EPOCH \in seen
    THEN NewEpochs(svs, i + 1, n, seen)
    ELSE <<svs[i].EPOCH>> \o NewEpochs(svs, i + 1, n, seen \cup {svs[i].EPOCH})

\* C19: a reconcile appends the new epochs to the Index in the order of
\* their first occurrence in the feed, after every key known before; the
\* relative order of the known keys does not change.
C19_Step ==
    (last'.req.op = "epochs" /\ last'.req.feed.kind = "list") =>
        iss_keys' = iss_keys \o NewEpochs(last'.req.feed.svs, 1, Processed(last'.log),
                                          StoredKeys)

C19_AppendedInFeedOrder == [][C19_Step]_vars

C19_Witness ==
    /\ Ingested
    /\ last.log = <<"Inserted", "Inserted">>
    /\ Len(iss_keys) = 3
    /\ iss_keys[2] = last.req.feed.svs[1].EPOCH
    /\ iss_keys[3] = last.req.feed.svs[2].EPOCH

\* C20: every query compute_nearest_geolocation sends to the geocoder uses a
\* zoom between min_zoom_level (10) and max_zoom_level (18) inclusive,
\* whatever sequence of no-match answers comes back.
C20_ZoomWithinBounds ==
    \A i \in 1..Len(geo.queries) :
        /\ geo.queries[i].zoom >= min_zoom_level
        /\ geo.queries[i].zoom <= max_zoom_level

\* The queries of a call that never gets a match: the first one, one for
\* each pass of the first while, one for each pass of the second.
MaxQueries ==
    1 + (max_zoom_level - start_zoom_level + 1) + (start_zoom_level - min_zoom_level + 1)

C21_Bounded ==
    /\ Len(geo.queries) <= MaxQueries
    /\ (geo.pc = "idle" /\ geo.queries # <<>> /\ geo.geoloc = "None") =>
          /\ Len(geo.queries) = MaxQueries
          /\ geo.result = NotFoundText
    /\ (geo.pc = "idle" /\ geo.queries # <<>> /\ geo.geoloc # "None") =>
          geo.result # NotFoundText

C21_StopsAtMatch ==
    (geo.pc # "idle" /\ geo.geoloc # "None") => geo'.queries = geo.queries

\* C21: compute_nearest_geolocation always terminates: with no match ever
\* it stops after a bounded number of queries and returns the not-found
\* text; with a match at some query it sends no further query.
C21_Terminates ==
    /\ []C21_Bounded
    /\ [][C21_StopsAtMatch]_vars
    /\ (geo.pc # "idle") ~> (geo.pc = "idle")

C21_Witness ==
    /\ geo.pc = "idle"
    /\ Len(geo.queries) = MaxQueries
    /\ geo.result = NotFoundText

\* C22: in every reachable state, the states in the middle of interleaved
\* ingestions included, every key of the Index has a stored sample, and so
\* has every key a listing in progress took from the Index: no reader of the
\* Index finds the sample of a key missing.
C22_IndexedKeysAreStored ==
    /\ Range(iss_keys) \subseteq StoredKeys
    /\ \A w \in Workers : Range(proc[w].epoch_keys) \subseteq StoredKeys

C22_Witness ==
    \E w, r \in Workers :
        /\ proc[w].pc = "rpush"
        /\ kv[Sv(w).EPOCH] # Nil
        /\ Sv(w).EPOCH \notin Range(iss_keys)
        /\ proc[r].pc = "collect"
        /\ proc[r].epoch_keys # <<>>

C23_Step ==
    (last'.req.op = "epochs" /\ last'.req.feed \in FeedFailures) =>
        /\ last'.resp.kind = "error"
        /\ kv' = kv
        /\ iss_keys' = iss_keys

\* C23: a GET /epochs whose feed pull fails, is malformed or yields no state
\* vectors answers an {error} payload and leaves the Store and the Index
\* exactly as they were before the request.
C23_FailedFeedLeavesStore == [][C23_Step]_vars

\* C24: GET /epochs with no limit and no offset, after a reconcile that went
\* through, answers every sample of the store, the whole of listAll() in
\* Index order, samples of earlier requests that the present feed lacks
\* included.
C24_NoParamsListsAll ==
    (/\ Ingested
     /\ ~last.req.limit.given
     /\ ~last.req.offset.given
     /\ Processed(last.log) = Len(last.req.feed.svs)) =>
        /\ last.resp.kind = "list"
        /\ last.resp.body = ListAll

C25_Step ==
    /\ last'.req.op \in {"epoch", "speed", "location", "now"} =>
          /\ kv' = kv
          /\ iss_keys' = iss_keys
    /\ (kv' # kv \/ iss_keys' # iss_keys) => last'.req.op = "epochs"

\* C25: GET /epochs/{epoch}, GET /epochs/{epoch}/speed,
\* GET /epochs/{epoch}/location and GET /now never modify the Store or the
\* Index, whether they succeed or answer an error; only GET /epochs writes.
C25_ReadsDoNotWrite == [][C25_Step]_vars

C25_Witness ==
    /\ last.req.op = "speed"
    /\ last.resp.kind = "dict"
    /\ Len(iss_keys) = 2

====
